---- MODULE Spec2Model ----
(***************************************************************************)
(* Model of the yogurt command dispatcher (src/src/dispatcher).            *)
(*                                                                         *)
(* Strings are sequences of one-character strings.  A Command is a record  *)
(* [node, exec, children]; node is [type, name, parser].  Closures (the    *)
(* actions and the context factory) are named values with a fixed result.  *)
(***************************************************************************)
EXTENDS Integers, Sequences, FiniteSets, TLC

VARIABLES
    cbs,          \* CommandBuilder values under construction (innermost last)
    db,           \* the DispatcherBuilder, or NoValue once consumed by build
    dispatcher,   \* the Dispatcher, NoValue before build, or an Err record
    declared,     \* children of the builder most recently built, in child() order
    built,        \* the Command most recently returned by CommandBuilder::build
    call,         \* the most recent call made on the dispatcher or the command
    outcome       \* what that call returned and did

vars == <<cbs, db, dispatcher, declared, built, call, outcome>>

----------------------------------------------------------------------------
(* Bounds of the model *)

MaxInputLen == 3     \* characters of an input of run_command
MaxNodes == 2        \* nodes below the root of a dispatcher that is run
MaxBuildNodes == 3   \* nodes below the root when only the builders are run
MaxCmdNodes == 3     \* nodes of a command that execute and process are applied to
MaxTokens == 1       \* positional tokens handed to execute and process
MaxCmdTokens == 2    \* tokens of one invocation handed to execute_command
MaxRepeatLen == 1    \* characters of an input when a dispatcher is run repeatedly
MaxRepeatNodes == 1  \* children of the root of a dispatcher that is run repeatedly

----------------------------------------------------------------------------
(* Values *)

NoValue == [none |-> TRUE]
NoCall == [op |-> "none"]

Whitespace == {" "}
Digits == {"3"}
Alphabet == {" ", "/", ";", ":", "x", "3"}

RECURSIVE StringsUpTo(_)
StringsUpTo(n) ==
    IF n = 0 THEN {<<>>}
    ELSE LET shorter == StringsUpTo(n - 1)
         IN  shorter \cup {Append(s, c) : s \in {t \in shorter : Len(t) = n - 1}, c \in Alphabet}

Inputs == StringsUpTo(MaxInputLen)

Prefixes == {<<>>, <<"/">>}
LiteralNames == {<<"x">>}
ArgumentNames == {<<"x">>}
Parsers == {"Int"}
AllParsers == {"Int", "Str"}
Actions == {"A"}
AllActions == {"A", "B"}
Words == {<<"x">>, <<"3">>}

RECURSIVE SeqsUpTo(_, _)
SeqsUpTo(S, n) ==
    IF n = 0 THEN {<<>>}
    ELSE LET shorter == SeqsUpTo(S, n - 1)
         IN  shorter \cup {Append(s, c) : s \in {t \in shorter : Len(t) = n - 1}, c \in S}

TokenSeqs == SeqsUpTo(Words, MaxTokens)

RepeatInputs == StringsUpTo(MaxRepeatLen)

NamedMaps == UNION {[D -> Words] : D \in SUBSET ArgumentNames}

\* src/src/dispatcher/mod.rs:15  enum NodeType { Argument(Argument), Literal(String) }
Literal(name) == [type |-> "Literal", name |-> name, parser |-> "None"]
Argument(name, parser) == [type |-> "Argument", name |-> name, parser |-> parser]

\* parsers/tokenize.rs Token: Simple(content), Named(key, value), End
Simple(content) == [type |-> "Simple", key |-> <<>>, value |-> content]
Named(key, value) == [type |-> "Named", key |-> key, value |-> value]
End == [type |-> "End", key |-> <<>>, value |-> <<>>]

\* Result<()>: Ok(()) or one of the Error kinds
Ok == "Ok"
UnknownCommand == "UnknownCommand"
SyntaxError == "SyntaxError"
ActionError == "ActionError"
IncompleteBuilder == "IncompleteBuilder"

\* The action closures: "A" returns Ok(()), "B" returns an error of its own.
ActionResult(a) == IF a = "A" THEN Ok ELSE ActionError

EmptyMap == [k \in {} |-> <<>>]

\* HashMap::insert
insert(map, key, value) ==
    [k \in (DOMAIN map) \cup {key} |-> IF k = key THEN value ELSE map[k]]

----------------------------------------------------------------------------
(* argument::Argument and the tokenizer: not part of src/, modelled from   *)
(* the specification (sections 4.1 and 4.2).                               *)

\* Argument::matches: the validator of the argument's parser applied to a raw string.
matches(argument, raw) ==
    IF argument.parser = "Int"
    THEN Len(raw) > 0 /\ \A i \in 1..Len(raw) : raw[i] \in Digits
    ELSE Len(raw) > 0

CountOf(word, c) == Cardinality({i \in 1..Len(word) : word[i] = c})

IndexOf(word, c) == CHOOSE i \in 1..Len(word) : word[i] = c /\ \A j \in 1..(i - 1) : word[j] # c

\* A word with no ':' is positional, key:value is named, anything else is malformed.
WellFormed(word) ==
    \/ CountOf(word, ":") = 0
    \/ /\ CountOf(word, ":") = 1
       /\ IndexOf(word, ":") > 1
       /\ IndexOf(word, ":") < Len(word)

WordToken(word) ==
    IF CountOf(word, ":") = 0 THEN Simple(word)
    ELSE Named(SubSeq(word, 1, IndexOf(word, ":") - 1),
               SubSeq(word, IndexOf(word, ":") + 1, Len(word)))

\* Scanner state: tokens emitted so far, the word being read, and whether a
\* malformed word was met.
RECURSIVE scan(_, _, _, _)
scan(s, i, word, acc) ==
    LET flush == IF word = <<>> THEN acc
                 ELSE [ok |-> acc.ok /\ WellFormed(word),
                       tokens |-> IF WellFormed(word) THEN Append(acc.tokens, WordToken(word))
                                  ELSE acc.tokens]
    IN  IF i > Len(s) THEN flush
        ELSE IF s[i] \in Whitespace THEN scan(s, i + 1, <<>>, flush)
        ELSE IF s[i] = ";" THEN scan(s, i + 1, <<>>, [flush EXCEPT !.tokens = Append(@, End)])
        ELSE scan(s, i + 1, Append(word, s[i]), acc)

\* tokenize(input) -> Result<(rest, Vec<Token>)>
tokenize(s) == scan(s, 1, <<>>, [ok |-> TRUE, tokens |-> <<>>])

----------------------------------------------------------------------------
(* nom combinators used by run_command *)

\* multispace0: drops the leading whitespace, never fails
RECURSIVE multispace0(_)
multispace0(s) ==
    IF s # <<>> /\ Head(s) \in Whitespace THEN multispace0(Tail(s)) ELSE s

\* tag that drops as many characters as the prefix has without comparing them
tag_unchecked(prefix, s) ==
    [ok |-> TRUE, rest |-> SubSeq(s, Len(prefix) + 1, Len(s))]

\* tag(prefix): succeeds iff the input starts with prefix, and returns the rest
tag(prefix, s) ==
    IF Len(s) >= Len(prefix) /\ SubSeq(s, 1, Len(prefix)) = prefix
    THEN [ok |-> TRUE, rest |-> SubSeq(s, Len(prefix) + 1, Len(s))]
    ELSE [ok |-> FALSE, rest |-> s]

----------------------------------------------------------------------------
(* dispatcher/exec_context.rs: ExecContext, not part of src/, modelled     *)
(* from the specification (section 4.5).  Only the bindings are kept; the  *)
(* user context is the unit value the factory returns.                     *)

\* ExecContext::new(user_context)
ExecContext_new == EmptyMap

\* ExecContext::insert_argument(name, value): appends or overwrites a binding
insert_argument(bindings, name, value) == insert(bindings, name, value)

----------------------------------------------------------------------------
(* src/src/dispatcher/mod.rs: Command *)

is_literal(c) == c.node.type = "Literal"

is_argument(c) == c.node.type = "Argument"

\* tokens.get(offset) with a 0-based offset
HasToken(tokens, offset) == offset + 1 <= Len(tokens)

TokenAt(tokens, offset) == tokens[offset + 1]

\* process that moves the cursor on also when it resolves a named override
process_advancing(c, offset, tokens, named_arguments, bindings) ==
    IF is_literal(c)
    THEN IF HasToken(tokens, offset) /\ c.node.name = TokenAt(tokens, offset)
         THEN [ok |-> TRUE, offset |-> offset + 1, bindings |-> bindings, named |-> named_arguments]
         ELSE [ok |-> FALSE, offset |-> offset, bindings |-> bindings, named |-> named_arguments]
    ELSE IF c.node.name \in DOMAIN named_arguments
         THEN IF matches(c.node, named_arguments[c.node.name])
              THEN [ok |-> TRUE, offset |-> offset + 1,
                    bindings |-> insert_argument(bindings, c.node.name, named_arguments[c.node.name]),
                    named |-> named_arguments]
              ELSE [ok |-> FALSE, offset |-> offset, bindings |-> bindings, named |-> named_arguments]
         ELSE IF HasToken(tokens, offset) /\ matches(c.node, TokenAt(tokens, offset))
              THEN [ok |-> TRUE, offset |-> offset + 1,
                    bindings |-> insert_argument(bindings, c.node.name, TokenAt(tokens, offset)),
                    named |-> named_arguments]
              ELSE [ok |-> FALSE, offset |-> offset, bindings |-> bindings, named |-> named_arguments]

\* process that tries the positional token when the override is rejected
process_fallback(c, offset, tokens, named_arguments, bindings) ==
    IF is_literal(c)
    THEN IF HasToken(tokens, offset) /\ c.node.name = TokenAt(tokens, offset)
         THEN [ok |-> TRUE, offset |-> offset + 1, bindings |-> bindings, named |-> named_arguments]
         ELSE [ok |-> FALSE, offset |-> offset, bindings |-> bindings, named |-> named_arguments]
    ELSE IF c.node.name \in DOMAIN named_arguments
         /\ matches(c.node, named_arguments[c.node.name])
         THEN [ok |-> TRUE, offset |-> offset,
               bindings |-> insert_argument(bindings, c.node.name, named_arguments[c.node.name]),
               named |-> named_arguments]
         ELSE IF HasToken(tokens, offset) /\ matches(c.node, TokenAt(tokens, offset))
              THEN [ok |-> TRUE, offset |-> offset + 1,
                    bindings |-> insert_argument(bindings, c.node.name, TokenAt(tokens, offset)),
                    named |-> named_arguments]
              ELSE [ok |-> FALSE, offset |-> offset, bindings |-> bindings, named |-> named_arguments]

\* process that steps over the cursor position of a literal that does not match
process_eager(c, offset, tokens, named_arguments, bindings) ==
    IF is_literal(c)
    THEN IF HasToken(tokens, offset) /\ c.node.name = TokenAt(tokens, offset)
         THEN [ok |-> TRUE, offset |-> offset + 1, bindings |-> bindings, named |-> named_arguments]
         ELSE [ok |-> FALSE, offset |-> offset + 1, bindings |-> bindings, named |-> named_arguments]
    ELSE IF c.node.name \in DOMAIN named_arguments
         THEN IF matches(c.node, named_arguments[c.node.name])
              THEN [ok |-> TRUE, offset |-> offset,
                    bindings |-> insert_argument(bindings, c.node.name, named_arguments[c.node.name]),
                    named |-> named_arguments]
              ELSE [ok |-> FALSE, offset |-> offset, bindings |-> bindings, named |-> named_arguments]
         ELSE IF HasToken(tokens, offset) /\ matches(c.node, TokenAt(tokens, offset))
              THEN [ok |-> TRUE, offset |-> offset + 1,
                    bindings |-> insert_argument(bindings, c.node.name, TokenAt(tokens, offset)),
                    named |-> named_arguments]
              ELSE [ok |-> FALSE, offset |-> offset, bindings |-> bindings, named |-> named_arguments]

\* Command::process: returns the bool and the new values of *offset, *context
\* and *named_arguments
process(c, offset, tokens, named_arguments, bindings) ==
    IF is_literal(c)
    THEN IF HasToken(tokens, offset) /\ c.node.name = TokenAt(tokens, offset)
         THEN [ok |-> TRUE, offset |-> offset + 1, bindings |-> bindings, named |-> named_arguments]
         ELSE [ok |-> FALSE, offset |-> offset, bindings |-> bindings, named |-> named_arguments]
    ELSE IF c.node.name \in DOMAIN named_arguments
         THEN IF matches(c.node, named_arguments[c.node.name])
              THEN [ok |-> TRUE, offset |-> offset,
                    bindings |-> insert_argument(bindings, c.node.name, named_arguments[c.node.name]),
                    named |-> named_arguments]
              ELSE [ok |-> FALSE, offset |-> offset, bindings |-> bindings, named |-> named_arguments]
         ELSE IF HasToken(tokens, offset) /\ matches(c.node, TokenAt(tokens, offset))
              THEN [ok |-> TRUE, offset |-> offset + 1,
                    bindings |-> insert_argument(bindings, c.node.name, TokenAt(tokens, offset)),
                    named |-> named_arguments]
              ELSE [ok |-> FALSE, offset |-> offset, bindings |-> bindings, named |-> named_arguments]

\* One entry of the trace of a match: an entry into execute, a call of
\* process, or the invocation of an action.  path is the sequence of child
\* indices from the node the match started at.
Event(ev, path, offset, ok, action, bindings) ==
    [ev |-> ev, path |-> path, offset |-> offset, ok |-> ok,
     action |-> action, bindings |-> bindings]

\* Terminal with a strict comparison
Terminal_strict(offset, tokens) == offset < Len(tokens)

\* The terminal check of Command::execute (mod.rs:58)
Terminal(offset, tokens) == offset <= Len(tokens)

\* Command::execute, and its loop over the children from child i on.
\* Both return [state, res, bindings, log]; offset is the node's local
\* cursor, which process advances in place.
RECURSIVE execute(_, _, _, _, _, _)
RECURSIVE execute_children(_, _, _, _, _, _, _)
execute(c, offset, tokens, named_arguments, bindings, path) ==
    LET enter == <<Event("execute", path, offset, TRUE, "None", bindings)>>
    IN  IF Terminal(offset, tokens)
        THEN IF c.exec # "None"
             THEN [state |-> "Done", res |-> ActionResult(c.exec), bindings |-> bindings,
                   log |-> enter \o <<Event("exec", path, offset, TRUE, c.exec, bindings)>>]
             ELSE [state |-> "Done", res |-> UnknownCommand, bindings |-> bindings,
                   log |-> enter]
        ELSE LET r == execute_children(c, 1, offset, tokens, named_arguments, bindings, path)
             IN  [r EXCEPT !.log = enter \o @]

execute_children(c, i, offset, tokens, named_arguments, bindings, path) ==
    IF i > Len(c.children)
    THEN [state |-> "Working", res |-> Ok, bindings |-> bindings, log |-> <<>>]
    ELSE LET child == c.children[i]
             p == process(child, offset, tokens, named_arguments, bindings)
             pev == <<Event("process", Append(path, i), offset, p.ok, "None", p.bindings)>>
         IN  IF p.ok
             THEN LET r == execute(child, p.offset, tokens, p.named, p.bindings,
                                   Append(path, i))
                  IN  IF r.state = "Done"
                      THEN [r EXCEPT !.log = pev \o @]
                      ELSE LET rest == execute_children(c, i + 1, p.offset, tokens,
                                                        p.named, r.bindings, path)
                           IN  [rest EXCEPT !.log = pev \o r.log \o @]
             ELSE LET rest == execute_children(c, i + 1, p.offset, tokens,
                                               p.named, p.bindings, path)
                  IN  [rest EXCEPT !.log = pev \o @]

----------------------------------------------------------------------------
(* src/src/dispatcher/mod.rs: Dispatcher *)

\* unwrap_tokens: the contents of the Simple tokens, in order
RECURSIVE unwrap_tokens(_)
unwrap_tokens(tokens) ==
    IF tokens = <<>> THEN <<>>
    ELSE IF Head(tokens).type = "Simple"
         THEN <<Head(tokens).value>> \o unwrap_tokens(Tail(tokens))
         ELSE unwrap_tokens(Tail(tokens))

\* map_named_arguments: inserts the Named tokens in order into a HashMap
RECURSIVE map_named_arguments_from(_, _)

\* The map filled so that a key keeps the first value it was given
RECURSIVE map_named_arguments_from_first(_, _)
map_named_arguments_from_first(tokens, output) ==
    IF tokens = <<>> THEN output
    ELSE IF Head(tokens).type = "Named" /\ Head(tokens).key \notin DOMAIN output
         THEN map_named_arguments_from_first(Tail(tokens),
                                             insert(output, Head(tokens).key, Head(tokens).value))
         ELSE map_named_arguments_from_first(Tail(tokens), output)

map_named_arguments_from(tokens, output) ==
    IF tokens = <<>> THEN output
    ELSE IF Head(tokens).type = "Named"
         THEN map_named_arguments_from(Tail(tokens), insert(output, Head(tokens).key, Head(tokens).value))
         ELSE map_named_arguments_from(Tail(tokens), output)

map_named_arguments(tokens) == map_named_arguments_from(tokens, EmptyMap)

IsNamed(token) == token.type = "Named"

\* execute_command that reports every terminal outcome as success
execute_command_ok(d, tokens) ==
    LET named == SelectSeq(tokens, IsNamed)
        positional == SelectSeq(tokens, LAMBDA t : ~IsNamed(t))
        toks == unwrap_tokens(positional)
        named_args == map_named_arguments(named)
        r == execute(d.root, 0, toks, named_args, ExecContext_new, <<>>)
    IN  [tokens |-> toks, named |-> named_args,
         res |-> IF r.state = "Working" THEN UnknownCommand ELSE Ok,
         state |-> r.state, bindings |-> r.bindings, log |-> r.log]

\* execute_command that starts the match on a context already holding the
\* named arguments
execute_command_seeded(d, tokens) ==
    LET named == SelectSeq(tokens, IsNamed)
        positional == SelectSeq(tokens, LAMBDA t : ~IsNamed(t))
        toks == unwrap_tokens(positional)
        named_args == map_named_arguments(named)
        r == execute(d.root, 0, toks, named_args, named_args, <<>>)
    IN  [tokens |-> toks, named |-> named_args,
         res |-> IF r.state = "Working" THEN UnknownCommand ELSE r.res,
         state |-> r.state, bindings |-> r.bindings, log |-> r.log]

\* Dispatcher::execute_command: the record of one invocation
execute_command(d, tokens) ==
    LET named == SelectSeq(tokens, IsNamed)
        positional == SelectSeq(tokens, LAMBDA t : ~IsNamed(t))
        toks == unwrap_tokens(positional)
        named_args == map_named_arguments(named)
        r == execute(d.root, 0, toks, named_args, ExecContext_new, <<>>)
    IN  [tokens |-> toks, named |-> named_args,
         res |-> IF r.state = "Working" THEN UnknownCommand ELSE r.res,
         state |-> r.state, bindings |-> r.bindings, log |-> r.log]

RECURSIVE run_tokens(_, _, _, _)

\* The loop without the ? on execute_command: a failure is dropped
RECURSIVE run_tokens_lenient(_, _, _, _)
run_tokens_lenient(d, tokens, cmd_tokens, runs) ==
    IF tokens = <<>> THEN [res |-> Ok, runs |-> runs]
    ELSE IF Head(tokens) # End
         THEN run_tokens_lenient(d, Tail(tokens), Append(cmd_tokens, Head(tokens)), runs)
         ELSE IF cmd_tokens # <<>>
              THEN run_tokens_lenient(d, Tail(tokens), <<>>,
                                      Append(runs, execute_command(d, cmd_tokens)))
              ELSE run_tokens_lenient(d, Tail(tokens), cmd_tokens, runs)

\* The loop without the is_empty test: every boundary dispatches
RECURSIVE run_tokens_eager(_, _, _, _)
run_tokens_eager(d, tokens, cmd_tokens, runs) ==
    IF tokens = <<>> THEN [res |-> Ok, runs |-> runs]
    ELSE IF Head(tokens) # End
         THEN run_tokens_eager(d, Tail(tokens), Append(cmd_tokens, Head(tokens)), runs)
         ELSE LET r == execute_command(d, cmd_tokens)
              IN  IF r.res # Ok
                  THEN [res |-> r.res, runs |-> Append(runs, r)]
                  ELSE run_tokens_eager(d, Tail(tokens), <<>>, Append(runs, r))

\* The loop of run_command over the tokens (mod.rs:143-152): runs is the
\* sequence of invocations dispatched so far
run_tokens(d, tokens, cmd_tokens, runs) ==
    IF tokens = <<>> THEN [res |-> Ok, runs |-> runs]
    ELSE IF Head(tokens) # End
         THEN run_tokens(d, Tail(tokens), Append(cmd_tokens, Head(tokens)), runs)
         ELSE IF cmd_tokens # <<>>
              THEN LET r == execute_command(d, cmd_tokens)
                   IN  IF r.res # Ok
                       THEN [res |-> r.res, runs |-> Append(runs, r)]
                       ELSE run_tokens(d, Tail(tokens), <<>>, Append(runs, r))
              ELSE run_tokens(d, Tail(tokens), cmd_tokens, runs)

\* Dispatcher::run_command: the result, the invocations dispatched, the
\* statement that returned ("prefix", "tokenize" or "dispatch") and the
\* token stream the loop ran over
run_command(d, command) ==
    LET stripped == multispace0(command)
        t == tag(d.prefix, stripped)
        tk == tokenize(t.rest)
        tokens == Append(tk.tokens, End)
        r == run_tokens(d, tokens, <<>>, <<>>)
    IN  IF ~t.ok THEN [res |-> SyntaxError, runs |-> <<>>, stage |-> "prefix", tokens |-> <<>>]
        ELSE IF ~tk.ok
             THEN [res |-> SyntaxError, runs |-> <<>>, stage |-> "tokenize", tokens |-> <<>>]
             ELSE [res |-> r.res, runs |-> r.runs, stage |-> "dispatch", tokens |-> tokens]

----------------------------------------------------------------------------
(* src/src/dispatcher/builder.rs *)

\* CommandBuilder::literal
CommandBuilder_literal(name) == [children |-> <<>>, node |-> Literal(name), exec |-> "None"]

\* CommandBuilder::argument
CommandBuilder_argument(parser, name) ==
    [children |-> <<>>, node |-> Argument(name, parser), exec |-> "None"]

\* build that keeps the children as they were declared
build_unpartitioned(b) == [children |-> b.children, node |-> b.node, exec |-> b.exec]

\* CommandBuilder::build: literals first, then arguments
build(b) ==
    LET literals == SelectSeq(b.children, is_literal)
        arguments == SelectSeq(b.children, LAMBDA c : ~is_literal(c))
    IN  [children |-> literals \o arguments, node |-> b.node, exec |-> b.exec]

\* DispatcherBuilder::new
DispatcherBuilder_new ==
    [root |-> CommandBuilder_literal(<<>>), prefix |-> <<>>, context_factory |-> "None"]

\* build that goes on without a context factory
DispatcherBuilder_build_unchecked(b) ==
    [root |-> build(b.root), prefix |-> b.prefix, context_factory |-> b.context_factory]

\* DispatcherBuilder::build
DispatcherBuilder_build(b) ==
    IF b.context_factory = "None"
    THEN [err |-> IncompleteBuilder]
    ELSE [root |-> build(b.root), prefix |-> b.prefix, context_factory |-> b.context_factory]

----------------------------------------------------------------------------
(* The state machine: the fluent builders, then calls on what they built.  *)
(* A behaviour builds one dispatcher (or one command) and makes one call   *)
(* on it: run_command, execute and process take &self and leave what they *)
(* are called on as it was.                                                *)

IsDispatcher(d) == "root" \in DOMAIN d

RECURSIVE Size(_)
RECURSIVE SizeAll(_)
Size(c) == 1 + SizeAll(c.children)
SizeAll(cs) == IF cs = <<>> THEN 0 ELSE Size(Head(cs)) + SizeAll(Tail(cs))

\* Nodes created so far, the dispatcher root excluded
NodesInFlight == SizeAll(cbs) + (IF db = NoValue THEN 0 ELSE SizeAll(db.root.children))

Top == cbs[Len(cbs)]

Pop == SubSeq(cbs, 1, Len(cbs) - 1)

\* Command::literal(name)
Command_literal(name, budget) ==
    /\ dispatcher = NoValue /\ NodesInFlight < budget
    /\ cbs' = Append(cbs, CommandBuilder_literal(name))
    /\ UNCHANGED <<db, dispatcher, declared, built, call, outcome>>

\* Command::argument(name, parser, required)
Command_argument(name, parser, budget) ==
    /\ dispatcher = NoValue /\ NodesInFlight < budget
    /\ cbs' = Append(cbs, CommandBuilder_argument(parser, name))
    /\ UNCHANGED <<db, dispatcher, declared, built, call, outcome>>

\* CommandBuilder::exec(action) on the innermost builder
CommandBuilder_exec(a) ==
    /\ dispatcher = NoValue /\ cbs # <<>>
    /\ cbs' = [cbs EXCEPT ![Len(cbs)].exec = a]
    /\ UNCHANGED <<db, dispatcher, declared, built, call, outcome>>

\* CommandBuilder::child(child): child.into() builds the innermost builder
CommandBuilder_child ==
    /\ dispatcher = NoValue /\ Len(cbs) >= 2
    /\ cbs' = [Pop EXCEPT ![Len(cbs) - 1].children = Append(@, build(Top))]
    /\ declared' = Top.children
    /\ built' = build(Top)
    /\ UNCHANGED <<db, dispatcher, call, outcome>>

\* DispatcherBuilder::prefix
DispatcherBuilder_prefix(p) ==
    /\ db # NoValue
    /\ db' = [db EXCEPT !.prefix = p]
    /\ UNCHANGED <<cbs, dispatcher, declared, built, call, outcome>>

\* DispatcherBuilder::context
DispatcherBuilder_context ==
    /\ db # NoValue
    /\ db' = [db EXCEPT !.context_factory = "factory"]
    /\ UNCHANGED <<cbs, dispatcher, declared, built, call, outcome>>

\* DispatcherBuilder::child(child)
DispatcherBuilder_child ==
    /\ db # NoValue /\ Len(cbs) = 1
    /\ db' = [db EXCEPT !.root.children = Append(@, build(Top))]
    /\ cbs' = <<>>
    /\ declared' = Top.children
    /\ built' = build(Top)
    /\ UNCHANGED <<dispatcher, call, outcome>>

\* DispatcherBuilder::build
Dispatcher_build ==
    /\ db # NoValue /\ cbs = <<>>
    /\ dispatcher' = DispatcherBuilder_build(db)
    /\ db' = NoValue
    /\ declared' = db.root.children
    /\ built' = build(db.root)
    /\ UNCHANGED <<cbs, call, outcome>>

\* run_command that takes the prefix out of the dispatcher
Dispatcher_run_command_taking(command) ==
    /\ IsDispatcher(dispatcher) /\ call = NoCall
    /\ call' = [op |-> "run_command", command |-> command]
    /\ outcome' = run_command(dispatcher, command)
    /\ dispatcher' = [dispatcher EXCEPT !.prefix = <<>>]
    /\ UNCHANGED <<cbs, db, declared, built>>

\* Dispatcher::run_command(command), the first call on the dispatcher
Dispatcher_run_command(command) ==
    /\ IsDispatcher(dispatcher) /\ call = NoCall
    /\ call' = [op |-> "run_command", command |-> command]
    /\ outcome' = run_command(dispatcher, command)
    /\ UNCHANGED <<cbs, db, dispatcher, declared, built>>

\* A later run_command on the same dispatcher: a second call on any input,
\* then a third on the input of the first.  first keeps the input and the
\* outcome of the first call and the dispatcher as that call left it, other
\* the input of the second.
Dispatcher_run_command_later(command) ==
    /\ IsDispatcher(dispatcher) /\ call.op = "run_command" /\ "again" \notin DOMAIN call
    /\ "first" \in DOMAIN call => command = call.first.command
    /\ call' = IF "first" \in DOMAIN call
               THEN [op |-> "run_command", command |-> command, first |-> call.first,
                     other |-> call.command, again |-> TRUE]
               ELSE [op |-> "run_command", command |-> command,
                     first |-> [command |-> call.command, outcome |-> outcome,
                                dispatcher |-> dispatcher]]
    /\ outcome' = run_command(dispatcher, command)
    /\ UNCHANGED <<cbs, db, dispatcher, declared, built>>

\* impl From<CommandBuilder> for Command: the outermost builder is built
Command_from ==
    /\ db = NoValue /\ dispatcher = NoValue /\ Len(cbs) = 1
    /\ dispatcher' = [command |-> build(Top)]
    /\ cbs' = <<>>
    /\ declared' = Top.children
    /\ built' = build(Top)
    /\ UNCHANGED <<db, call, outcome>>

IsCommand(d) == "command" \in DOMAIN d

\* execute started on a context that already holds the named arguments
Command_execute_seeded(tokens, named_arguments) ==
    /\ IsCommand(dispatcher) /\ call = NoCall
    /\ call' = [op |-> "execute", offset |-> 0, tokens |-> tokens, named |-> named_arguments]
    /\ outcome' = execute(dispatcher.command, 0, tokens, named_arguments, named_arguments, <<>>)
    /\ UNCHANGED <<cbs, db, dispatcher, declared, built>>

\* Command::execute as execute_command calls it: cursor 0, a fresh context
Command_execute(tokens, named_arguments) ==
    /\ IsCommand(dispatcher) /\ call = NoCall
    /\ call' = [op |-> "execute", offset |-> 0, tokens |-> tokens, named |-> named_arguments]
    /\ outcome' = execute(dispatcher.command, 0, tokens, named_arguments, ExecContext_new, <<>>)
    /\ UNCHANGED <<cbs, db, dispatcher, declared, built>>

\* Command::process at a cursor within the tokens, with a fresh context
Command_process(offset, tokens, named_arguments) ==
    /\ IsCommand(dispatcher) /\ call = NoCall
    /\ dispatcher.command.children = <<>>
    /\ offset <= Len(tokens)
    /\ call' = [op |-> "process", offset |-> offset, tokens |-> tokens, named |-> named_arguments]
    /\ outcome' = process(dispatcher.command, offset, tokens, named_arguments, ExecContext_new)
    /\ UNCHANGED <<cbs, db, dispatcher, declared, built>>

\* The tokens of one invocation, named and positional
CmdTokens == {Simple(w) : w \in Words} \cup {Named(k, v) : k \in ArgumentNames, v \in Words}

InvocationTokens == SeqsUpTo(CmdTokens, MaxCmdTokens) \ {<<>>}

\* Dispatcher::execute_command(tokens) with a single-node root
Dispatcher_execute_command(tokens) ==
    /\ IsCommand(dispatcher) /\ call = NoCall
    /\ dispatcher.command.children = <<>>
    /\ call' = [op |-> "execute_command", tokens |-> tokens]
    /\ outcome' = execute_command([root |-> dispatcher.command], tokens)
    /\ UNCHANGED <<cbs, db, dispatcher, declared, built>>

Builders(budget, actions, parsers) ==
    \/ \E name \in LiteralNames : Command_literal(name, budget)
    \/ \E name \in ArgumentNames, parser \in parsers : Command_argument(name, parser, budget)
    \/ \E a \in actions : CommandBuilder_exec(a)
    \/ CommandBuilder_child

DispatcherBuilders ==
    \/ \E p \in Prefixes : DispatcherBuilder_prefix(p)
    \/ DispatcherBuilder_context
    \/ DispatcherBuilder_child
    \/ Dispatcher_build

Init ==
    /\ cbs = <<>>
    /\ db = DispatcherBuilder_new
    /\ dispatcher = NoValue
    /\ declared = <<>>
    /\ built = NoValue
    /\ call = NoCall
    /\ outcome = NoValue

Next ==
    \/ Builders(MaxNodes, Actions, Parsers)
    \/ DispatcherBuilders
    \/ call = NoCall /\ \E command \in Inputs : Dispatcher_run_command(command)

Spec == Init /\ [][Next]_vars

\* The builders alone, with larger trees
NextBuilder ==
    \/ Builders(MaxBuildNodes, Actions, Parsers)
    \/ DispatcherBuilders

SpecBuilder == Init /\ [][NextBuilder]_vars

\* A command built on its own, and the matcher applied to it as a function
\* of the node: execute at cursor 0 with a fresh context, as execute_command
\* calls it on the root, and process at any cursor within the tokens.
InitCommand ==
    /\ cbs = <<>>
    /\ db = NoValue
    /\ dispatcher = NoValue
    /\ declared = <<>>
    /\ built = NoValue
    /\ call = NoCall
    /\ outcome = NoValue

NextCommand ==
    \/ Builders(MaxCmdNodes, AllActions, AllParsers)
    \/ Command_from
    \/ call = NoCall /\ \E tokens \in TokenSeqs, named \in NamedMaps :
            Command_execute(tokens, named)
    \/ call = NoCall /\ \E tokens \in TokenSeqs, named \in NamedMaps, offset \in 0..MaxTokens :
            Command_process(offset, tokens, named)
    \/ call = NoCall /\ \E tokens \in InvocationTokens : Dispatcher_execute_command(tokens)

SpecCommand == InitCommand /\ [][NextCommand]_vars

\* A dispatcher whose root has leaf children, run three times: on an
\* input, on any input, and on the first input again
NextRepeat ==
    \/ \E name \in LiteralNames : Command_literal(name, MaxRepeatNodes)
    \/ \E name \in ArgumentNames, parser \in Parsers :
            Command_argument(name, parser, MaxRepeatNodes)
    \/ \E a \in Actions : CommandBuilder_exec(a)
    \/ DispatcherBuilders
    \/ call = NoCall /\ \E command \in RepeatInputs : Dispatcher_run_command(command)
    \/ call # NoCall /\ \E command \in RepeatInputs : Dispatcher_run_command_later(command)

SpecRepeat == Init /\ [][NextRepeat]_vars

----------------------------------------------------------------------------
(* Vocabulary of the properties *)

IsRun == call.op = "run_command"
IsExecute == call.op = "execute"
IsProcess == call.op = "process"

\* The events of a trace that are invocations of an action
ExecEvents(log) == SelectSeq(log, LAMBDA e : e.ev = "exec")

\* The calls of process on the node at path p
ProcessEvents(log, p) == SelectSeq(log, LAMBDA e : e.ev = "process" /\ e.path = p)

\* The paths from node c that consume the tokens from the cursor on exactly
\* and end at a node with an action, each with the bindings made on the way:
\* a literal consumes the token equal to its text, an argument takes its
\* named override or else consumes the token its validator accepts.
RECURSIVE MatchingPaths(_, _, _, _, _, _)
MatchingPaths(c, offset, tokens, named, bindings, path) ==
    (IF offset = Len(tokens) /\ c.exec # "None"
     THEN {[path |-> path, action |-> c.exec, bindings |-> bindings]}
     ELSE {})
    \cup UNION {LET child == c.children[i]
                    lit == child.node.type = "Literal"
                    over == ~lit /\ child.node.name \in DOMAIN named
                    tok == offset < Len(tokens)
                    ok == IF lit THEN tok /\ tokens[offset + 1] = child.node.name
                          ELSE IF over THEN matches(child.node, named[child.node.name])
                          ELSE tok /\ matches(child.node, tokens[offset + 1])
                    value == IF over THEN named[child.node.name] ELSE tokens[offset + 1]
                IN  IF ~ok THEN {}
                    ELSE MatchingPaths(child, IF over THEN offset ELSE offset + 1, tokens, named,
                                       IF lit THEN bindings ELSE insert(bindings, child.node.name, value),
                                       Append(path, i))
                : i \in 1..Len(c.children)}

RootPaths(root, run) == MatchingPaths(root, 0, run.tokens, run.named, EmptyMap, <<>>)

\* The same with every argument taken from the positional tokens
PositionalPaths(root, run) == MatchingPaths(root, 0, run.tokens, EmptyMap, EmptyMap, <<>>)

\* The input of the last run_command without its leading whitespace
LeadingSpaces(s) ==
    CHOOSE k \in 0..Len(s) : /\ \A i \in 1..k : s[i] \in Whitespace
                             /\ (k = Len(s) \/ s[k + 1] \notin Whitespace)

Stripped(s) == SubSeq(s, LeadingSpaces(s) + 1, Len(s))

StartsWith(s, p) == Len(p) <= Len(s) /\ \A i \in 1..Len(p) : s[i] = p[i]

PrefixPresent == StartsWith(Stripped(call.command), dispatcher.prefix)

\* The last run_command reached its loop over the tokens
Tokenized == IsRun /\ outcome.stage = "dispatch"

\* The invocations of a token stream: the maximal runs of tokens other
\* than End, as sets of positions lo..hi, in input order
Groups(tokens) ==
    {<<lo, hi>> \in (1..Len(tokens)) \X (1..Len(tokens)) :
        /\ lo <= hi
        /\ \A i \in lo..hi : tokens[i] # End
        /\ (lo = 1 \/ tokens[lo - 1] = End)
        /\ (hi = Len(tokens) \/ tokens[hi + 1] = End)}

\* The k-th of the groups G in input order
Group(G, k) == CHOOSE g \in G : Cardinality({h \in G : h[1] < g[1]}) = k - 1

Positional(tokens, g) ==
    [i \in 1..Cardinality({j \in g[1]..g[2] : tokens[j].type = "Simple"}) |->
        tokens[CHOOSE j \in g[1]..g[2] :
                  /\ tokens[j].type = "Simple"
                  /\ Cardinality({m \in g[1]..(j - 1) : tokens[m].type = "Simple"}) = i - 1].value]

\* The token stream of the last run_command, the closing End included
InputTokens == outcome.tokens

----------------------------------------------------------------------------
(* C1: when the tokens of an invocation match exactly one path to a node   *)
(* with an action, run_command invokes that action exactly once, with the  *)
(* bindings of that path, and returns its result.                          *)
C1_UniquePathInvokesAction ==
    IsRun =>
        \A k \in 1..Len(outcome.runs) :
            LET run == outcome.runs[k]
                paths == RootPaths(dispatcher.root, run)
            IN  Cardinality(paths) = 1 =>
                    LET m == CHOOSE m \in paths : TRUE
                    IN  /\ Len(ExecEvents(run.log)) = 1
                        /\ ExecEvents(run.log)[1].path = m.path
                        /\ ExecEvents(run.log)[1].bindings = m.bindings
                        /\ run.res = ActionResult(m.action)

(* C2: an action is invoked only with the cursor at the end of the tokens. *)
C2_ActionOnlyWhenConsumed ==
    IsExecute =>
        \A i \in 1..Len(outcome.log) :
            outcome.log[i].ev = "exec" => outcome.log[i].offset = Len(call.tokens)

(* C3: the invocations of one input run in input order, and the first one  *)
(* that fails ends run_command with its error: nothing after it is         *)
(* dispatched and the context factory is not called again.                 *)
C3_FirstFailureStops ==
    Tokenized =>
        LET n == Len(outcome.runs)
            toks == InputTokens
            G == Groups(toks)
        IN  /\ n <= Cardinality(G)
            /\ \A k \in 1..n :
                   /\ outcome.runs[k].tokens = Positional(toks, Group(G, k))
                   /\ outcome.runs[k].res # Ok => k = n /\ outcome.res = outcome.runs[k].res
            /\ n < Cardinality(G) => n >= 1 /\ outcome.runs[n].res # Ok

C3_Witness ==
    /\ Tokenized
    /\ Cardinality(Groups(InputTokens)) >= 2
    /\ Len(outcome.runs) = 1
    /\ outcome.res = UnknownCommand

(* C4: where a literal child with text x and an argument child accepting x *)
(* meet, the token x goes to the literal child: its subtree gives the      *)
(* outcome and the argument child is not processed.                        *)
C4_LiteralBeforeArgument ==
    IsExecute /\ call.tokens # <<>> =>
        LET c == dispatcher.command
        IN  \A i, j \in 1..Len(c.children) :
                /\ is_literal(c.children[i]) /\ c.children[i].node.name = call.tokens[1]
                /\ is_argument(c.children[j]) /\ matches(c.children[j].node, call.tokens[1])
                => LET sub == execute(c.children[i], 1, call.tokens, call.named, EmptyMap, <<i>>)
                   IN  /\ Len(ProcessEvents(outcome.log, <<i>>)) = 1
                       /\ ProcessEvents(outcome.log, <<j>>) = <<>>
                       /\ sub.state = "Done" => outcome.state = "Done" /\ outcome.res = sub.res

(* C5: an argument whose name has a named override that its validator      *)
(* accepts is resolved from the override: process succeeds, binds the name *)
(* to the override and leaves the cursor where it was.                     *)
C5_OverrideKeepsCursor ==
    IsProcess =>
        LET c == dispatcher.command
        IN  /\ is_argument(c)
            /\ c.node.name \in DOMAIN call.named
            /\ matches(c.node, call.named[c.node.name])
            => /\ outcome.ok
               /\ outcome.offset = call.offset
               /\ c.node.name \in DOMAIN outcome.bindings
               /\ outcome.bindings[c.node.name] = call.named[c.node.name]

C5_Witness ==
    /\ IsProcess
    /\ is_argument(dispatcher.command)
    /\ dispatcher.command.node.name \in DOMAIN call.named
    /\ matches(dispatcher.command.node, call.named[dispatcher.command.node.name])
    /\ call.offset < Len(call.tokens)
    /\ call.tokens[call.offset + 1] # call.named[dispatcher.command.node.name]
    /\ outcome.ok /\ outcome.offset = call.offset

(* C6: an invocation that no path to an action consumes exactly is         *)
(* answered with UnknownCommand and invokes no action, also when the root  *)
(* reports Working.                                                        *)
C6_NoPathIsUnknownCommand ==
    IsRun =>
        \A k \in 1..Len(outcome.runs) :
            LET run == outcome.runs[k]
            IN  /\ (RootPaths(dispatcher.root, run) = {} \/ PositionalPaths(dispatcher.root, run) = {}) =>
                       /\ run.res = UnknownCommand
                       /\ ExecEvents(run.log) = <<>>
                       /\ outcome.res = UnknownCommand
                /\ run.state = "Working" => run.res = UnknownCommand

C6_Witness ==
    /\ IsRun
    /\ Len(outcome.runs) = 1
    /\ dispatcher.root.children # <<>>
    /\ outcome.runs[1].tokens # <<>>
    /\ RootPaths(dispatcher.root, outcome.runs[1]) = {}
    /\ PositionalPaths(dispatcher.root, outcome.runs[1]) = {}
    /\ outcome.res = UnknownCommand

(* C7: an input with no tokens, or with boundaries only, dispatches        *)
(* nothing and returns Ok; no invocation is ever made of an empty group.   *)
C7_EmptyInvocationsSkipped ==
    Tokenized =>
        /\ (\A i \in 1..Len(InputTokens) : InputTokens[i] = End)
               => outcome.res = Ok /\ outcome.runs = <<>>
        /\ \A k \in 1..Len(outcome.runs) :
               Len(outcome.runs[k].tokens) + Cardinality(DOMAIN outcome.runs[k].named) >= 1

C7_Witness ==
    /\ Tokenized
    /\ Len(InputTokens) >= 2
    /\ Groups(InputTokens) = {}
    /\ outcome.res = Ok /\ outcome.runs = <<>>

(* C8: a node with an action and no children, executed at cursor 0 on no   *)
(* tokens, invokes its action and reports the action's result as Done.     *)
C8_TerminalAtRoot ==
    (IsExecute /\ call.tokens = <<>> /\ call.offset = 0
       /\ dispatcher.command.exec # "None" /\ dispatcher.command.children = <<>>)
    => /\ outcome.state = "Done"
       /\ outcome.res = ActionResult(dispatcher.command.exec)
       /\ Len(ExecEvents(outcome.log)) = 1
       /\ ExecEvents(outcome.log)[1].action = dispatcher.command.exec
       /\ ExecEvents(outcome.log)[1].path = <<>>

C8_Witness ==
    /\ IsExecute /\ call.tokens = <<>> /\ call.offset = 0
    /\ dispatcher.command.exec = "B" /\ dispatcher.command.children = <<>>
    /\ outcome.state = "Done" /\ outcome.res = ActionError

(* C9: run_command skips leading whitespace and then needs the prefix: an  *)
(* input without it is a syntax error and dispatches nothing; an empty     *)
(* prefix never fails.                                                     *)
C9_PrefixRequired ==
    IsRun =>
        LET rest == Stripped(call.command)
            present == StartsWith(rest, dispatcher.prefix)
            tk == tokenize(SubSeq(rest, Len(dispatcher.prefix) + 1, Len(rest)))
        IN  /\ ~present => outcome.res = SyntaxError /\ outcome.runs = <<>>
            /\ dispatcher.prefix = <<>> /\ tk.ok => outcome.res # SyntaxError
            /\ present /\ tk.ok =>
                   /\ outcome.stage = "dispatch"
                   /\ Groups(tk.tokens) # {} => Len(outcome.runs) >= 1

C9_Witness ==
    /\ IsRun
    /\ dispatcher.prefix # <<>> /\ ~PrefixPresent
    /\ tokenize(Stripped(call.command)).ok
    /\ Groups(tokenize(Stripped(call.command)).tokens) # {}
    /\ outcome.res = SyntaxError /\ outcome.runs = <<>>

(* C10: build puts every literal child before every argument child and     *)
(* keeps the child() order within the literals and within the arguments,   *)
(* dropping and duplicating nothing.                                       *)
RECURSIVE LiteralsFirst(_)
LiteralsFirst(c) ==
    /\ \A i, j \in 1..Len(c.children) :
           i < j => ~(c.children[i].node.type = "Argument" /\ c.children[j].node.type = "Literal")
    /\ \A i \in 1..Len(c.children) : LiteralsFirst(c.children[i])

OfType(cs, t) == SelectSeq(cs, LAMBDA c : c.node.type = t)

C10_StablePartition ==
    built # NoValue =>
        /\ LiteralsFirst(built)
        /\ Len(built.children) = Len(declared)
        /\ OfType(built.children, "Literal") = OfType(declared, "Literal")
        /\ OfType(built.children, "Argument") = OfType(declared, "Argument")
        /\ IsDispatcher(dispatcher) => LiteralsFirst(dispatcher.root)

C10_Witness ==
    /\ IsDispatcher(dispatcher)
    /\ built = dispatcher.root
    /\ Len(declared) = 3
    /\ declared[1].node.type = "Argument"
    /\ declared[2].node.type = "Literal" /\ declared[3].node.type = "Literal"
    /\ declared[2] # declared[3]
    /\ built.children = <<declared[2], declared[3], declared[1]>>

C12_BuildNeedsContext ==
    [][(db # NoValue /\ db' = NoValue) =>
          /\ db.context_factory = "None" => dispatcher' = [err |-> IncompleteBuilder]
          /\ db.context_factory # "None" =>
                 /\ IsDispatcher(dispatcher')
                 /\ dispatcher'.prefix = db.prefix
                 /\ Len(dispatcher'.root.children) = Len(db.root.children)]_vars

C12_Witness ==
    /\ dispatcher = [err |-> IncompleteBuilder]
    /\ db = NoValue
    /\ built.children # <<>>

C14_RejectedOverrideFails ==
    IsProcess /\ is_argument(dispatcher.command) =>
        LET c == dispatcher.command
            name == c.node.name
        IN  /\ name \in DOMAIN call.named /\ ~matches(c.node, call.named[name])
               => /\ ~outcome.ok
                  /\ outcome.offset = call.offset
                  /\ outcome.bindings = EmptyMap
            /\ outcome.offset # call.offset => name \notin DOMAIN call.named
            /\ /\ name \notin DOMAIN call.named
               /\ HasToken(call.tokens, call.offset)
               /\ matches(c.node, TokenAt(call.tokens, call.offset))
               => /\ outcome.ok
                  /\ outcome.offset = call.offset + 1
                  /\ outcome.bindings = insert(EmptyMap, name, TokenAt(call.tokens, call.offset))

C14_Witness ==
    /\ IsProcess /\ is_argument(dispatcher.command)
    /\ dispatcher.command.node.name \in DOMAIN call.named
    /\ ~matches(dispatcher.command.node, call.named[dispatcher.command.node.name])
    /\ HasToken(call.tokens, call.offset)
    /\ matches(dispatcher.command.node, TokenAt(call.tokens, call.offset))
    /\ ~outcome.ok

\* The names of the argument nodes entered on the way down path from c
RECURSIVE PathArguments(_, _)
PathArguments(c, path) ==
    IF path = <<>> THEN {}
    ELSE LET child == c.children[Head(path)]
         IN  (IF is_argument(child) THEN {child.node.name} ELSE {})
                 \cup PathArguments(child, Tail(path))

C18_CursorWithinTokens ==
    /\ IsExecute =>
           \A k \in 1..Len(outcome.log) : outcome.log[k].offset \in 0..Len(call.tokens)
    /\ IsProcess =>
           /\ outcome.offset \in 0..Len(call.tokens)
           /\ outcome.offset # call.offset =>
                  /\ HasToken(call.tokens, call.offset)
                  /\ outcome.offset = call.offset + 1

C18_Witness ==
    /\ IsProcess
    /\ is_literal(dispatcher.command)
    /\ call.tokens # <<>>
    /\ call.offset = Len(call.tokens)
    /\ ~outcome.ok
    /\ outcome.offset = Len(call.tokens)

(* C19: the named overrides of an invocation map every key of a named      *)
(* token to the value of the last token with that key, and process leaves  *)
(* the overrides as they were, also when it resolves an argument from one. *)
C19_NamedOverridesReadOnly ==
    /\ call.op = "execute_command" =>
           LET named == SelectSeq(call.tokens, IsNamed)
           IN  /\ DOMAIN outcome.named = {named[i].key : i \in 1..Len(named)}
               /\ \A i \in 1..Len(named) :
                      (\A j \in (i + 1)..Len(named) : named[j].key # named[i].key)
                      => outcome.named[named[i].key] = named[i].value
    /\ IsProcess => outcome.named = call.named

C19_Witness ==
    /\ call.op = "execute_command"
    /\ \E i, j \in 1..Len(call.tokens) :
           /\ i < j
           /\ IsNamed(call.tokens[i]) /\ IsNamed(call.tokens[j])
           /\ call.tokens[i].key = call.tokens[j].key
           /\ call.tokens[i].value # call.tokens[j].value
           /\ outcome.named[call.tokens[j].key] = call.tokens[j].value

====
